---- MODULE Spec2Model ----
(***************************************************************************)
(* Model of converter.py: the RGB565 pixel encoder (convert_to_raw) and    *)
(* the batch driver (auto_detect_directories, generate_test_image, main).  *)
(*                                                                         *)
(* Three specifications share the definitions below:                       *)
(*   SpecPixel  the per-pixel body of convert_to_raw (lines 47-70) applied *)
(*              to one 8-bit triple under every mode of TEST_MODES;        *)
(*   SpecConv   one call of convert_to_raw with arbitrary arguments;       *)
(*   Spec       one run of main, which calls convert_to_raw.               *)
(*                                                                         *)
(* A picture file is modelled by the bitmap it decodes to, a record        *)
(* [w, h, px] with px a row-major sequence of 8-bit triples.  A RAW file   *)
(* is modelled by its sequence of bytes.                                   *)
(***************************************************************************)
EXTENDS Integers, Sequences, FiniteSets, TLC

VARIABLES
    \* --- SpecPixel ---
    rgb,          \* the 8-bit triple being encoded
    ti,           \* position in TEST_MODES
    encoded,      \* mode -> 16-bit value, for the modes applied so far
    \* --- convert_to_raw ---
    cpc,          \* "idle", "open", "create", "loop", "returned", "raised"
    exc,          \* the exception that ended the call, "none" otherwise
    image_path, output_path, width, height, mode,   \* the arguments
    img,          \* the prepared bitmap (after line 38)
    x, y,         \* loop counters
    pixel,        \* the local variable pixel, Unbound until assigned
    \* --- file system ---
    imgs_exists,  \* whether the directory imgs/ exists
    imgs,         \* file name -> picture, the files of imgs/
    assets,       \* path -> bytes, the files under the output tree
    dirs,         \* the output directories that exist
    \* --- main ---
    mpc,          \* "start","glob","rmtree","mode","image","converting",
                  \* "done","aborted","crashed"; "direct" when main is not run
    image_files,  \* the list built at lines 129-133
    mi, ii,       \* positions in TEST_MODES and image_files
    test_image,   \* second result of auto_detect_directories
    \* --- history ---
    imgs0,        \* the names in imgs/ when the run started
    before,       \* the paths under assets/ when the run started
    written       \* the paths opened for writing by this run

pixelVars == <<rgb, ti, encoded>>
convVars == <<cpc, exc, image_path, output_path, width, height, mode, img, x, y, pixel>>
fsVars == <<imgs_exists, imgs, assets, dirs>>
mainVars == <<mpc, image_files, mi, ii, test_image>>
histVars == <<imgs0, before, written>>
vars == <<pixelVars, convVars, fsVars, mainVars, histVars>>

----------------------------------------------------------------------------
(* Bounds and configuration *)

\* Target size handed to convert_to_raw (240 x 240 in the source, scaled down).
SCREEN_WIDTH == 2
SCREEN_HEIGHT == 2
\* Channel values sampled for SpecPixel: the multiples of ChanStride, and 255.
ChanStride == 17

TEST_MODES == <<0, 1, 2, 3, 4, 5, 6, 7>>

\* The value of a local variable that has not been assigned.
Unbound == -1

Channels == {v \in 0..255 : v % ChanStride = 0 \/ v = 255}
Triples == Channels \X Channels \X Channels

\* Colours of the pictures used by SpecConv and Spec.
Palette == {<<255, 0, 0>>, <<18, 52, 86>>, <<255, 255, 255>>}

\* Modes convert_to_raw may be called with directly.
CallModes == -1..8

----------------------------------------------------------------------------
(* Python integer operators *)

RECURSIVE BitAnd(_, _)
BitAnd(a, b) ==
    IF a = 0 \/ b = 0 THEN 0
    ELSE (a % 2) * (b % 2) + 2 * BitAnd(a \div 2, b \div 2)

RECURSIVE BitOr(_, _)
BitOr(a, b) ==
    IF a = 0 THEN b
    ELSE IF b = 0 THEN a
    ELSE (IF a % 2 = 1 \/ b % 2 = 1 THEN 1 ELSE 0) + 2 * BitOr(a \div 2, b \div 2)

Shl(a, n) == a * 2^n
Shr(a, n) == a \div 2^n

----------------------------------------------------------------------------
(* The per-pixel body of convert_to_raw *)

\* Lines 59, 61 and 64, 66: the green field of the compact layouts, g5 << 6.
\* (CompactGreenShift5 is the variant that places it at bit 5.)
CompactGreenShift5(g) == Shl(BitAnd(Shr(g, 3), 31), 5)
CompactGreen(g) == Shl(BitAnd(Shr(g, 3), 31), 6)

\* Lines 49, 51 and 54, 56: the green field of the standard layouts, g6 << 5.
\* (StandardGreenShift3 is the variant that drops three bits of green.)
StandardGreenShift3(g) == Shl(BitAnd(Shr(g, 3), 63), 5)
StandardGreen(g) == Shl(BitAnd(Shr(g, 2), 63), 5)

\* Lines 47-66: the three shifted fields <<high, middle, low>> of the branch
\* taken for the mode; <<>> when no branch is taken.

Fields(r, g, b, m) ==
    IF m = 0 \/ m = 4 THEN
        <<Shl(BitAnd(Shr(r, 3), 31), 11), StandardGreen(g), BitAnd(Shr(b, 3), 31)>>
    ELSE IF m = 1 \/ m = 5 THEN
        <<Shl(BitAnd(Shr(b, 3), 31), 11), StandardGreen(g), BitAnd(Shr(r, 3), 31)>>
    ELSE IF m = 2 \/ m = 6 THEN
        <<Shl(BitAnd(Shr(r, 3), 31), 11), CompactGreen(g), BitAnd(Shr(b, 3), 31)>>
    ELSE IF m = 3 \/ m = 7 THEN
        <<Shl(BitAnd(Shr(b, 3), 31), 11), CompactGreen(g), BitAnd(Shr(r, 3), 31)>>
    ELSE <<>>

\* Lines 47-66: the value of pixel after the if/elif chain, given its value
\* before (no branch assigns it when the mode is outside 0..7).
\* (BasePixelDefaultZero is the variant with a final else that assigns 0.)
BasePixelDefaultZero(r, g, b, m, old) ==
    LET f == Fields(r, g, b, m)
    IN  IF f = <<>> THEN 0 ELSE BitOr(BitOr(f[1], f[2]), f[3])
BasePixel(r, g, b, m, old) ==
    LET f == Fields(r, g, b, m)
    IN  IF f = <<>> THEN old ELSE BitOr(BitOr(f[1], f[2]), f[3])

\* Lines 69-70, for a bound pixel.
\* (PolarityFrom5 is the variant that tests mode > 4.)
PolarityFrom5(p, m) == IF m >= 5 THEN 65535 - p ELSE p
Polarity(p, m) == IF m >= 4 THEN 65535 - p ELSE p

\* Line 73: the two bytes written for a pixel value.
\* (PixelBytesHighFirst and PixelBytesLowOnly are the variants that write the
\* high byte first and the low byte alone.)
PixelBytesHighFirst(p) == <<BitAnd(Shr(p, 8), 255), BitAnd(p, 255)>>
PixelBytesLowOnly(p) == <<BitAnd(p, 255)>>
PixelBytes(p) == <<BitAnd(p, 255), BitAnd(Shr(p, 8), 255)>>

\* Lines 47-70 for a mode of TEST_MODES, where pixel is always assigned.
EncodedValue(c, m) == Polarity(BasePixel(c[1], c[2], c[3], m, Unbound), m)

----------------------------------------------------------------------------
(* SpecPixel: one triple under every mode of TEST_MODES *)

EmptyMap == [k \in {} |-> 0]
Put(f, k, v) == [p \in DOMAIN f \cup {k} |-> IF p = k THEN v ELSE f[p]]

NoName == [stem |-> "", ext |-> ""]
NoPath == [dir |-> "", stem |-> "", ext |-> ""]
NoPicture == [w |-> 0, h |-> 0, px |-> <<>>]

ConvIdle ==
    /\ cpc = "idle" /\ exc = "none"
    /\ image_path = NoName /\ output_path = NoPath
    /\ width = 0 /\ height = 0 /\ mode = 0
    /\ img = <<>> /\ x = 0 /\ y = 0 /\ pixel = Unbound

FsEmpty ==
    /\ imgs_exists = FALSE /\ imgs = EmptyMap
    /\ assets = EmptyMap /\ dirs = {}

MainIdle ==
    /\ mpc = "direct" /\ image_files = <<>> /\ mi = 1 /\ ii = 1
    /\ test_image = NoName
    /\ imgs0 = {} /\ before = {} /\ written = {}

PixelIdle == rgb = <<0, 0, 0>> /\ ti = 1 /\ encoded = EmptyMap

InitPixel ==
    /\ rgb \in Triples
    /\ ti = 1
    /\ encoded = EmptyMap
    /\ ConvIdle /\ FsEmpty /\ MainIdle

EncodePixel ==
    /\ ti <= Len(TEST_MODES)
    /\ encoded' = Put(encoded, TEST_MODES[ti], EncodedValue(rgb, TEST_MODES[ti]))
    /\ ti' = ti + 1
    /\ UNCHANGED <<rgb, convVars, fsVars, mainVars, histVars>>

NextPixel == EncodePixel

SpecPixel == InitPixel /\ [][NextPixel]_vars

----------------------------------------------------------------------------
(* convert_to_raw *)

Pictures(w, h) == {[w |-> w, h |-> h, px |-> p] : p \in [1..(w * h) -> Palette]}
IsUniform(pic) == \A i \in 1..Len(pic.px) : pic.px[i] = pic.px[1]

\* Lines 30-38: the bitmaps img.resize((w, h)) can return for a decoded
\* picture.  A picture that already has the target size is returned as it
\* is, and a picture of one colour stays of that colour; for any other
\* picture the filter's result is some w x h bitmap.
Prepared(pic, w, h) ==
    IF pic.w = w /\ pic.h = h THEN {pic.px}
    ELSE IF IsUniform(pic) THEN {[i \in 1..(w * h) |-> pic.px[1]]}
    ELSE [1..(w * h) -> Palette]

\* Line 44: img.getpixel((x, y)).
GetPixel(bitmap, w, px, py) == bitmap[py * w + px + 1]

\* Lines 27-38: open, normalise and resize the picture.  Image.open raises
\* when the file is missing or is not a picture, and may fail on any file.
ConvOpen ==
    /\ cpc = "open"
    /\ \E ok \in BOOLEAN :
        IF ok /\ image_path \in DOMAIN imgs /\ imgs[image_path] # NoPicture
        THEN /\ img' \in Prepared(imgs[image_path], width, height)
             /\ cpc' = "create"
             /\ exc' = exc
        ELSE /\ cpc' = "raised"
             /\ exc' = "DecodeError"
             /\ img' = img
    /\ UNCHANGED <<image_path, output_path, width, height, mode, x, y, pixel>>
    /\ UNCHANGED <<pixelVars, fsVars, mainVars, histVars>>

\* Line 41: open(output_path, "wb") creates or truncates the file; it raises
\* when the directory does not exist.
ConvCreate ==
    /\ cpc = "create"
    /\ IF output_path.dir \in dirs
       THEN /\ assets' = Put(assets, output_path, <<>>)
            /\ written' = written \cup {output_path}
            /\ cpc' = "loop"
            /\ exc' = exc
       ELSE /\ cpc' = "raised"
            /\ exc' = "IOError"
            /\ UNCHANGED <<assets, written>>
    /\ x' = 0
    /\ y' = 0
    /\ UNCHANGED <<image_path, output_path, width, height, mode, img, pixel>>
    /\ UNCHANGED <<pixelVars, imgs_exists, imgs, dirs, mainVars, imgs0, before>>

\* The loop counters after one iteration of lines 42-43.
Advance(px, py, w, h) ==
    IF px + 1 < w THEN <<px + 1, py>> ELSE <<0, py + 1>>

\* Lines 44-73: one iteration of the loop body.  Reading an unassigned pixel
\* (line 70 or line 73) raises UnboundLocalError; the with block closes the
\* file.
ConvPixel ==
    /\ cpc = "loop"
    /\ y < height
    /\ LET c == GetPixel(img, width, x, y)
           base == BasePixel(c[1], c[2], c[3], mode, pixel)
       IN  IF base = Unbound
           THEN /\ cpc' = "raised"
                /\ exc' = "UnboundLocalError"
                /\ UNCHANGED <<assets, x, y, pixel>>
           ELSE /\ pixel' = Polarity(base, mode)
                /\ assets' = Put(assets, output_path,
                                 assets[output_path] \o PixelBytes(Polarity(base, mode)))
                /\ x' = Advance(x, y, width, height)[1]
                /\ y' = Advance(x, y, width, height)[2]
                /\ UNCHANGED <<cpc, exc>>
    /\ UNCHANGED <<image_path, output_path, width, height, mode, img>>
    /\ UNCHANGED <<pixelVars, imgs_exists, imgs, dirs, mainVars, histVars>>

\* Lines 41-42: the loop is exhausted, the file is closed, the call returns.
ConvReturn ==
    /\ cpc = "loop"
    /\ y >= height
    /\ cpc' = "returned"
    /\ UNCHANGED <<exc, image_path, output_path, width, height, mode, img, x, y, pixel>>
    /\ UNCHANGED <<pixelVars, fsVars, mainVars, histVars>>

ConvNext == ConvOpen \/ ConvCreate \/ ConvPixel \/ ConvReturn

\* A direct call convert_to_raw("in.png", "out/img.raw", w, h, m).
InName == [stem |-> "in", ext |-> ".png"]
OutPath == [dir |-> "out", stem |-> "img", ext |-> ".raw"]
JunkBytes == <<1, 2, 3>>

InitConv ==
    /\ PixelIdle
    /\ cpc = "open" /\ exc = "none"
    /\ image_path = InName /\ output_path = OutPath
    /\ width \in 1..SCREEN_WIDTH
    /\ height \in 1..SCREEN_HEIGHT
    /\ mode \in CallModes
    /\ img = <<>> /\ x = 0 /\ y = 0 /\ pixel = Unbound
    /\ imgs_exists = TRUE
    /\ \E pic \in Pictures(width, height) \cup Pictures(1, 1) :
          imgs = Put(EmptyMap, InName, pic)
    /\ \E pre \in {"nodir", "nofile", "junk"} :
          /\ dirs = IF pre = "nodir" THEN {} ELSE {"out"}
          /\ assets = IF pre = "junk" THEN Put(EmptyMap, OutPath, JunkBytes) ELSE EmptyMap
    /\ mpc = "direct" /\ image_files = <<>> /\ mi = 1 /\ ii = 1
    /\ test_image = NoName
    /\ imgs0 = {InName} /\ before = DOMAIN assets /\ written = {}

SpecConv == InitConv /\ [][ConvNext]_vars

----------------------------------------------------------------------------
(* generate_test_image and auto_detect_directories *)

\* Lines 83-93: the colour put at column px of the test pattern.
TestPixel(px) ==
    IF px >= 120 THEN
        LET gray == (255 * (px - 120)) \div (SCREEN_WIDTH - 120)
        IN  <<gray, gray, gray>>
    ELSE IF px < 80 THEN <<255, 0, 0>>
    ELSE IF px < 160 THEN <<0, 255, 0>>
    ELSE IF px < 240 THEN <<0, 0, 255>>
    ELSE <<0, 0, 0>>

\* Lines 77-93: the SCREEN_WIDTH x SCREEN_HEIGHT test pattern.
TestPattern ==
    [w |-> SCREEN_WIDTH, h |-> SCREEN_HEIGHT,
     px |-> [i \in 1..(SCREEN_WIDTH * SCREEN_HEIGHT) |-> TestPixel((i - 1) % SCREEN_WIDTH)]]

\* Line 98: the picture is saved as a JPEG of quality 95, which is lossy: the
\* saved file decodes to the picture or to one whose bright channels are off
\* by one.
Dim(c) == <<c[1] - c[1] \div 128, c[2] - c[2] \div 128, c[3] - c[3] \div 128>>
JpegDecodings(pic) ==
    {pic, [w |-> pic.w, h |-> pic.h, px |-> [i \in 1..Len(pic.px) |-> Dim(pic.px[i])]]}

\* Line 96.
TestName == [stem |-> "test_pattern", ext |-> ".jpg"]

\* glob.glob(os.path.join(imgs_dir, pattern)) for the patterns used.
GlobAnyDot(files) == {n \in DOMAIN files : n.ext # ""}
GlobExt(files, e) == {n \in DOMAIN files : n.ext = e}

\* glob returns the matches in an arbitrary order.
Orderings(S) ==
    {s \in [1..Cardinality(S) -> S] : \A i, j \in 1..Cardinality(S) : i # j => s[i] # s[j]}

\* Lines 102-120 (and 75-100 when the test pattern is generated).
AutoDetect ==
    /\ mpc = "start"
    /\ IF ~imgs_exists \/ GlobAnyDot(imgs) = {}
       THEN /\ \E pic \in JpegDecodings(TestPattern) : imgs' = Put(imgs, TestName, pic)
            /\ imgs_exists' = TRUE
            /\ test_image' = TestName
       ELSE /\ test_image' = NoName
            /\ UNCHANGED <<imgs, imgs_exists>>
    /\ mpc' = "glob"
    /\ UNCHANGED <<pixelVars, convVars, assets, dirs, image_files, mi, ii, histVars>>

\* Lines 129-137.
GlobImages ==
    /\ mpc = "glob"
    /\ \E jpg \in Orderings(GlobExt(imgs, ".jpg")),
          jpeg \in Orderings(GlobExt(imgs, ".jpeg")),
          png \in Orderings(GlobExt(imgs, ".png")) :
          image_files' = jpg \o jpeg \o png
    /\ mpc' = IF image_files' = <<>> THEN "aborted" ELSE "rmtree"
    /\ UNCHANGED <<pixelVars, convVars, fsVars, mi, ii, test_image, histVars>>

----------------------------------------------------------------------------
(* main *)

HowToUse == [dir |-> "assets", stem |-> "HOW_TO_USE", ext |-> ".txt"]

\* Line 159: os.path.join(base_assets, "mode_{}".format(mode)).
ModeDirs ==
    <<"assets/mode_0", "assets/mode_1", "assets/mode_2", "assets/mode_3",
      "assets/mode_4", "assets/mode_5", "assets/mode_6", "assets/mode_7">>
ModeDir(m) == ModeDirs[m + 1]

\* Lines 168-169: the output path of an input file under a mode.
RawPath(m, name) == [dir |-> ModeDir(m), stem |-> name.stem, ext |-> ".raw"]

\* Lines 147-156, 174-203: the text of the instructions file, modelled by the
\* list of the modes it describes.
Readme == <<0, 1, 2, 3, 4, 5, 6, 7>>

\* Lines 139-144: shutil.rmtree(base_assets, ignore_errors=True).
Rmtree ==
    /\ mpc = "rmtree"
    /\ assets' = EmptyMap
    /\ dirs' = {}
    /\ mi' = 1
    /\ mpc' = "mode"
    /\ UNCHANGED <<pixelVars, convVars, imgs_exists, imgs, image_files, ii, test_image, histVars>>

\* Lines 158-164: the next mode of TEST_MODES, and its directory.
MakeModeDir ==
    /\ mpc = "mode"
    /\ mi <= Len(TEST_MODES)
    /\ dirs' = dirs \cup {"assets", ModeDir(TEST_MODES[mi])}
    /\ ii' = 1
    /\ mpc' = "image"
    /\ UNCHANGED <<pixelVars, convVars, imgs_exists, imgs, assets, image_files, mi, test_image, histVars>>

\* Lines 167-170: the call of convert_to_raw for the next input file.
CallConvert ==
    /\ mpc = "image"
    /\ ii <= Len(image_files)
    /\ image_path' = image_files[ii]
    /\ output_path' = RawPath(TEST_MODES[mi], image_files[ii])
    /\ width' = SCREEN_WIDTH
    /\ height' = SCREEN_HEIGHT
    /\ mode' = TEST_MODES[mi]
    /\ img' = <<>> /\ x' = 0 /\ y' = 0 /\ pixel' = Unbound
    /\ cpc' = "open" /\ exc' = "none"
    /\ mpc' = "converting"
    /\ UNCHANGED <<pixelVars, fsVars, image_files, mi, ii, test_image, histVars>>

\* Line 171: convert_to_raw returned; on to the next input file.
ConvertReturned ==
    /\ mpc = "converting"
    /\ cpc = "returned"
    /\ cpc' = "idle"
    /\ ii' = ii + 1
    /\ mpc' = "image"
    /\ UNCHANGED <<exc, image_path, output_path, width, height, mode, img, x, y, pixel>>
    /\ UNCHANGED <<pixelVars, fsVars, image_files, mi, test_image, histVars>>

\* Line 170: convert_to_raw raised; main has no handler, the run ends.
\* (ConvertRaisedSkip is the variant that skips the file and goes on.)
ConvertRaisedSkip ==
    /\ mpc = "converting"
    /\ cpc = "raised"
    /\ cpc' = "idle"
    /\ ii' = ii + 1
    /\ mpc' = "image"
    /\ UNCHANGED <<exc, image_path, output_path, width, height, mode, img, x, y, pixel>>
    /\ UNCHANGED <<pixelVars, fsVars, image_files, mi, test_image, histVars>>
ConvertRaised ==
    /\ mpc = "converting"
    /\ cpc = "raised"
    /\ mpc' = "crashed"
    /\ UNCHANGED <<pixelVars, convVars, fsVars, image_files, mi, ii, test_image, histVars>>

\* Line 167: the input files are exhausted; on to the next mode.
EndOfImages ==
    /\ mpc = "image"
    /\ ii > Len(image_files)
    /\ mi' = mi + 1
    /\ mpc' = "mode"
    /\ UNCHANGED <<pixelVars, convVars, fsVars, image_files, ii, test_image, histVars>>

\* Lines 174-214: the modes are exhausted; the instructions file is written.
WriteReadme ==
    /\ mpc = "mode"
    /\ mi > Len(TEST_MODES)
    /\ assets' = Put(assets, HowToUse, Readme)
    /\ written' = written \cup {HowToUse}
    /\ mpc' = "done"
    /\ UNCHANGED <<pixelVars, convVars, imgs_exists, imgs, dirs, image_files, mi, ii, test_image, imgs0, before>>

\* The files imgs/ may hold when a run starts, and the files left under
\* assets/ by an earlier run.
ImageNames ==
    {[stem |-> "a", ext |-> ".jpg"], [stem |-> "a", ext |-> ".png"],
     [stem |-> "b", ext |-> ".jpeg"]}
OtherNames == {[stem |-> "notes", ext |-> ".txt"], [stem |-> "README", ext |-> ""]}
StalePaths ==
    {[dir |-> "assets", stem |-> "old", ext |-> ".bin"],
     [dir |-> "assets/mode_0", stem |-> "a", ext |-> ".raw"]}

Init ==
    /\ PixelIdle
    /\ ConvIdle
    /\ imgs_exists \in BOOLEAN
    /\ \E names \in SUBSET (ImageNames \cup OtherNames) :
          /\ imgs_exists \/ names = {}
          /\ imgs \in [names -> Pictures(1, 1) \cup {NoPicture}]
          /\ \A n \in names : n \in ImageNames <=> imgs[n] # NoPicture
    /\ before \in SUBSET StalePaths
    /\ assets = [p \in before |-> JunkBytes]
    /\ dirs = {p.dir : p \in before} \cup (IF before = {} THEN {} ELSE {"assets"})
    /\ mpc = "start" /\ image_files = <<>> /\ mi = 1 /\ ii = 1
    /\ test_image = NoName
    /\ imgs0 = DOMAIN imgs
    /\ written = {}

MainNext ==
    \/ AutoDetect
    \/ GlobImages
    \/ Rmtree
    \/ MakeModeDir
    \/ CallConvert
    \/ ConvertReturned
    \/ ConvertRaised
    \/ EndOfImages
    \/ WriteReadme

Next == MainNext \/ ConvNext

Spec == Init /\ [][Next]_vars

----------------------------------------------------------------------------
(* Properties of the per-pixel body (SpecPixel) *)

\* The packing table of the specification, written without the masks.
Table(c, m) ==
    IF m = 0 THEN BitOr(BitOr(Shl(Shr(c[1], 3), 11), Shl(Shr(c[2], 2), 5)), Shr(c[3], 3))
    ELSE IF m = 1 THEN BitOr(BitOr(Shl(Shr(c[3], 3), 11), Shl(Shr(c[2], 2), 5)), Shr(c[1], 3))
    ELSE IF m = 2 THEN BitOr(BitOr(Shl(Shr(c[1], 3), 11), Shl(Shr(c[2], 3), 6)), Shr(c[3], 3))
    ELSE BitOr(BitOr(Shl(Shr(c[3], 3), 11), Shl(Shr(c[2], 3), 6)), Shr(c[1], 3))

\* C1: for every 8-bit triple, the value computed under mode 0, 1, 2 or 3 is
\* the one the packing table gives for that mode.
C1_PackingTable ==
    \A m \in (DOMAIN encoded) \cap 0..3 : encoded[m] = Table(rgb, m)

C1_Witness ==
    /\ 3 \in DOMAIN encoded
    /\ rgb[1] > rgb[3]
    /\ rgb[2] % 8 >= 4
    /\ Cardinality({encoded[m] : m \in 0..3}) = 4

\* C2: the value computed under mode m+4 is 0xFFFF minus the value computed
\* under mode m for the same triple, and the two have no bit in common.
C2_InvertedIsComplement ==
    \A m \in 0..3 :
        (m + 4) \in DOMAIN encoded =>
            /\ encoded[m + 4] = 65535 - encoded[m]
            /\ BitAnd(encoded[m + 4], encoded[m]) = 0
            /\ BitOr(encoded[m + 4], encoded[m]) = 65535

C2_Witness ==
    /\ 7 \in DOMAIN encoded
    /\ encoded[0] \notin {0, 65535}
    /\ encoded[4] = 65535 - encoded[0]
    /\ encoded[7] # encoded[4]

\* Bit n of a value.
Bit(v, n) == Shr(v, n) % 2

\* C9: under every mode the final value fits 16 bits and both bytes fit 8
\* bits, the three packed fields have no bit in common, and bit 5 is 0 in
\* modes 2 and 3 and 1 in modes 6 and 7.
C9_RangeAndLayout ==
    \A m \in DOMAIN encoded :
        LET f == Fields(rgb[1], rgb[2], rgb[3], m)
        IN  /\ encoded[m] \in 0..65535
            /\ PixelBytes(encoded[m])[1] \in 0..255
            /\ PixelBytes(encoded[m])[2] \in 0..255
            /\ BitAnd(f[1], f[2]) = 0
            /\ BitAnd(f[1], f[3]) = 0
            /\ BitAnd(f[2], f[3]) = 0
            /\ (m \in {2, 3} => Bit(encoded[m], 5) = 0)
            /\ (m \in {6, 7} => Bit(encoded[m], 5) = 1)

C9_Witness ==
    /\ 7 \in DOMAIN encoded
    /\ rgb = <<255, 255, 255>>
    /\ encoded[2] = 65503
    /\ encoded[6] = 32

----------------------------------------------------------------------------
(* Properties of convert_to_raw (SpecConv) *)

\* C3: when the call returns for a mode in 0..7, the output file holds
\* exactly width*height*2 bytes.
C3_OutputLength ==
    (cpc = "returned" /\ mode \in 0..7) =>
        /\ output_path \in DOMAIN assets
        /\ Len(assets[output_path]) = width * height * 2

C3_Witness ==
    /\ cpc = "returned"
    /\ width >= 2 /\ height >= 2
    /\ output_path \in before
    /\ Len(assets[output_path]) = width * height * 2

\* The number of pixels the loop has completed.
PixelsDone == y * width + x

\* C4: the pixels are written in row-major order, y outer and x inner from
\* y = 0, each as its low byte then its high byte: the pixel (px, py) is at
\* the offsets 2*(py*width+px) and 2*(py*width+px)+1, while the loop runs
\* and when the call has returned.
C4_RowMajorLittleEndian ==
    (cpc \in {"loop", "returned"} /\ mode \in 0..7) =>
        /\ Len(assets[output_path]) = 2 * PixelsDone
        /\ (cpc = "returned" => PixelsDone = width * height)
        /\ \A py \in 0..(height - 1), px \in 0..(width - 1) :
              py * width + px < PixelsDone =>
                  LET v == EncodedValue(GetPixel(img, width, px, py), mode)
                      off == 2 * (py * width + px)
                  IN  /\ assets[output_path][off + 1] = v % 256
                      /\ assets[output_path][off + 2] = (v \div 256) % 256

C4_Witness ==
    /\ cpc = "returned"
    /\ mode = 1
    /\ width >= 2 /\ height >= 2
    /\ GetPixel(img, width, 1, 0) # GetPixel(img, width, 0, 1)
    /\ assets[output_path][3] # assets[output_path][2 * width + 1]
    /\ assets[output_path][1] # assets[output_path][2]

\* C10: with a mode outside 0..7 the call never returns and never assigns or
\* writes a pixel; once the file is created it stays empty, and the first
\* iteration of the loop raises.
C10_InvalidModeState ==
    mode \notin 0..7 =>
        /\ cpc # "returned"
        /\ pixel = Unbound
        /\ x = 0 /\ y = 0
        /\ (output_path \in written => assets[output_path] = <<>>)
        /\ (exc = "UnboundLocalError" => (cpc = "raised" /\ output_path \in written))

C10_InvalidModeFails ==
    /\ []C10_InvalidModeState
    /\ [][(cpc = "loop" /\ mode \notin 0..7) =>
             (cpc' = "raised" /\ exc' = "UnboundLocalError")]_vars

C10_Witness ==
    /\ mode = 8
    /\ cpc = "raised"
    /\ exc = "UnboundLocalError"
    /\ output_path \in before
    /\ assets[output_path] = <<>>

----------------------------------------------------------------------------
(* Properties of main (Spec) *)

ImageExts == {".jpg", ".jpeg", ".png"}
Ended == mpc \in {"done", "aborted", "crashed"}

\* C5: a run that starts with no .jpg, .jpeg or .png file in the source
\* directory generates the test pattern and has an image to convert.
C5_TestPatternWhenNoImage ==
    (mpc # "start" /\ \A n \in imgs0 : n.ext \notin ImageExts) =>
        /\ test_image = TestName
        /\ TestName \in DOMAIN imgs
        /\ mpc # "aborted"

\* C6: when a run has ended, whatever its outcome, no file that was under
\* assets/ before the run and was not written by the run is still there.
C6_AssetsCleared ==
    Ended => \A p \in before \ written : p \notin DOMAIN assets

\* The bytes of the RAW file of a prepared bitmap under a mode.
ExpectedRaw(bitmap, m) ==
    [k \in 1..(2 * Len(bitmap)) |->
        PixelBytes(EncodedValue(bitmap[(k + 1) \div 2], m))[IF k % 2 = 1 THEN 1 ELSE 2]]

\* C7: after a run that completes, every input image has, under every mode
\* of TEST_MODES, its RAW file holding its own encoding under that mode.
C7_EveryImageConverted ==
    mpc = "done" =>
        \A k \in 1..Len(TEST_MODES), i \in 1..Len(image_files) :
            LET p == RawPath(TEST_MODES[k], image_files[i])
            IN  /\ p \in DOMAIN assets
                /\ \E bm \in Prepared(imgs[image_files[i]], SCREEN_WIDTH, SCREEN_HEIGHT) :
                      assets[p] = ExpectedRaw(bm, TEST_MODES[k])

\* The (mode, image) positions before the current one in conversion order.
EarlierPairs ==
    {<<k, i>> \in (1..Len(TEST_MODES)) \X (1..Len(image_files)) :
        k < mi \/ (k = mi /\ i < ii)}

\* C8: when opening the image at a (mode, image) position fails, the run
\* ends there: the RAW files of the earlier positions are in place and
\* complete, nothing but those files was written, the instructions file is
\* absent, and from then on no conversion starts and no file changes.
C8_CrashedState ==
    (mpc = "crashed" /\ exc = "DecodeError") =>
        /\ HowToUse \notin DOMAIN assets
        /\ \A q \in EarlierPairs :
              LET p == RawPath(TEST_MODES[q[1]], image_files[q[2]])
              IN  /\ p \in DOMAIN assets
                  /\ Len(assets[p]) = 2 * SCREEN_WIDTH * SCREEN_HEIGHT
        /\ DOMAIN assets = {RawPath(TEST_MODES[q[1]], image_files[q[2]]) : q \in EarlierPairs}
        /\ written = DOMAIN assets

C8_DecodeFailureIsFatal ==
    /\ []C8_CrashedState
    /\ [][exc = "DecodeError" => (cpc' # "open" /\ assets' = assets /\ mpc' = "crashed")]_vars

C8_Witness ==
    /\ mpc = "crashed"
    /\ exc = "DecodeError"
    /\ mi >= 2
    /\ ii = 2
    /\ Cardinality(DOMAIN assets) >= 3

====
